---- MODULE Spec2Model ----
(***************************************************************************)
(* Quote store, push/pull/merge reconciliation and polling of the quotes   *)
(* widget.  The repository holds three successive versions of the sync     *)
(* code; each is a program of its own and the model runs one of them per   *)
(* behaviour:                                                              *)
(*   "v1"  src/unnamed/part_000          lines 289-612  (syncQuotes)       *)
(*   "v2"  src/dom-manipulation/script.js lines 645-921 (syncOnce)         *)
(*   "v3"  src/dom-manipulation/script.js lines 934-1104 (syncQuotes)      *)
(* A quote is a JavaScript object: a function from the names of the        *)
(* properties it has to their values.  Object identity is the slot of the  *)
(* object in the quotes array (the array is only ever appended to).        *)
(***************************************************************************)
EXTENDS Integers, Sequences, FiniteSets, TLC

VARIABLES version, quotes, saved, conflictsLS, pc, pushes, started,
          startDirty, pollTimer, timers, last

vars == <<version, quotes, saved, conflictsLS, pc, pushes, started,
          startDirty, pollTimer, timers, last>>

(* ---------------------------- bounds ----------------------------------- *)
MaxNew == 2
MaxCycles == 2
MaxSnap == 2
MaxSyncs == 3

Versions == {"v1", "v2", "v3"}
Cycles == 1..MaxCycles
PostIds == {1, 2}
PayloadIds == {1}
Bodies == {"", "Alpha"}
Titles == {""}
InputTexts == {"ab", "Alpha"}
InputCategories == {"Life"}

(* ---------------------------- objects ---------------------------------- *)
\* Date.now(): no code reads a stored timestamp, and the clock is taken not to
\* advance within a behaviour
Now == "1762000000000"

Has(q, k) == k \in DOMAIN q

\* Object.assign(t, s): every own property of s is copied over t
Assign(t, s) == [k \in DOMAIN t \cup DOMAIN s |-> IF k \in DOMAIN s THEN s[k] ELSE t[k]]

\* truthiness of q._dirty
Dirty(q) == Has(q, "_dirty") /\ q._dirty

\* q.id as a sequence of the "-"-separated parts of the string; undefined is <<>>
IdOf(q) == IF Has(q, "id") THEN q.id ELSE <<>>

\* String(q.id)
IdString(q) == IF Has(q, "id") THEN q.id ELSE <<"undefined">>

\* (q.category || "")
CategoryOrEmpty(q) == IF Has(q, "category") THEN q.category ELSE ""

\* q.category, <<>> when the property is missing
CategoryRaw(q) == IF Has(q, "category") THEN <<q.category>> ELSE <<>>

\* String.prototype.trim on the strings of the model: the blank string becomes ""
Trim(s) == IF s = " " THEN "" ELSE s

\* a || b on strings
OrElse(a, b) == IF a # "" THEN a ELSE b

DEFAULT_QUOTES_v1 ==
  << [id |-> <<"loc", "1">>, text |-> "The best way to predict the future is to create it.",
      category |-> "Inspiration", _dirty |-> FALSE],
     [id |-> <<"loc", "2">>, text |-> "Simplicity is the soul of efficiency.",
      category |-> "Productivity", _dirty |-> FALSE] >>

DEFAULT_QUOTES_v2 ==
  << [text |-> "The best way to predict the future is to create it.", category |-> "Inspiration"],
     [text |-> "Simplicity is the soul of efficiency.", category |-> "Productivity"] >>

InitialQuotes(v) ==
  CASE v = "v1" -> DEFAULT_QUOTES_v1
    [] v = "v2" -> DEFAULT_QUOTES_v2
    [] OTHER -> << >>

(* ---------------------------- mapping ---------------------------------- *)
\* the posts the mock API may answer with
Posts == {p \in [id : PostIds, body : Bodies, title : Titles] : p.id = 1 \/ p.body # ""}

mkServerQuote(v, p, t) ==
  CASE v = "v1" ->
         [id |-> <<"srv", ToString(p.id)>>,
          text |-> Trim(OrElse(p.body, OrElse(p.title, "Untitled"))),
          category |-> "Server", _dirty |-> FALSE]
    [] v = "v2" ->
         [id |-> <<"srv", ToString(p.id)>>,
          text |-> OrElse(Trim(OrElse(p.body, OrElse(p.title, ""))), "Untitled"),
          category |-> "Server", updatedAt |-> t, _src |-> "server"]
    [] OTHER ->
         [id |-> <<"srv", ToString(p.id)>>,
          text |-> Trim(OrElse(p.body, OrElse(p.title, "Untitled"))),
          category |-> "Server", updatedAt |-> t, _src |-> "server", _dirty |-> FALSE]

\* mkLocalQuote with an id of the server's namespace
mkLocalQuote_ServerNamespace(v, text, category, t, r) ==
  [id |-> <<"srv", r>>, text |-> text, category |-> category,
   updatedAt |-> t, _src |-> "local", _dirty |-> TRUE]

mkLocalQuote(v, text, category, t, r) ==
  CASE v = "v1" ->
         [id |-> <<"loc", t, r>>, text |-> text, category |-> category,
          _dirty |-> TRUE]
    [] v = "v2" ->
         [id |-> <<"loc", t, r>>, text |-> text, category |-> category,
          updatedAt |-> t, _src |-> "local", _dirty |-> TRUE]
    [] OTHER ->
         [id |-> <<"loc", t, r>>, text |-> text, category |-> OrElse(category, ""),
          updatedAt |-> t, _src |-> "local", _dirty |-> TRUE]

RECURSIVE MapPosts(_, _, _)
MapPosts(v, posts, t) ==
  IF posts = << >> THEN << >>
  ELSE <<mkServerQuote(v, Head(posts), t)>> \o MapPosts(v, Tail(posts), t)

(* ---------------------------- merge ------------------------------------ *)
\* the key under which the merge indexes a store record
KeyOf(v, q) ==
  IF v = "v2" /\ ~Has(q, "id") THEN <<q.text, "-", CategoryOrEmpty(q)>> ELSE IdOf(q)

\* byId.get(key): the slot the index holds for key (a later entry of the Map
\* constructor replaces an earlier one), 0 when there is none
Lookup(v, qs, key) ==
  LET hits == {i \in 1..Len(qs) : KeyOf(v, qs[i]) = key}
  IN IF hits = {} THEN 0 ELSE CHOOSE i \in hits : \A j \in hits : j <= i

\* Differs with the comparison of the categories left out
Differs_TextOnly(v, local, sq) == local.text # sq.text

Differs(v, local, sq) ==
  IF v = "v2"
  THEN local.text # sq.text \/ CategoryRaw(local) # CategoryRaw(sq)
  ELSE local.text # sq.text \/ CategoryOrEmpty(local) # CategoryOrEmpty(sq)

\* the no-difference branch
Settle(v, local) ==
  IF v = "v1" THEN Assign(local, [_dirty |-> FALSE])
  ELSE Assign(local, [_dirty |-> FALSE, _src |-> "server"])

\* MergeOne that puts an absent record in front of the store
MergeOne_Prepends(v, index, st, sq) ==
  LET i == Lookup(v, index, KeyOf(v, sq))
  IN IF i = 0
     THEN [quotes |-> <<sq>> \o st.quotes, conflicts |-> st.conflicts]
     ELSE [quotes |-> st.quotes, conflicts |-> st.conflicts]

\* MergeOne that logs the local object itself, not a copy: the entry shows
\* what Object.assign has written over it
MergeOne_LogsLiveObject(v, index, st, sq) ==
  LET i == Lookup(v, index, KeyOf(v, sq))
  IN IF i = 0
     THEN [quotes |-> Append(st.quotes, sq), conflicts |-> st.conflicts]
     ELSE LET local == st.quotes[i]
          IN IF Differs(v, local, sq)
             THEN [quotes |-> [st.quotes EXCEPT ![i] = Assign(local, sq)],
                   conflicts |-> Append(st.conflicts,
                                        [id |-> KeyOf(v, sq), server |-> sq,
                                         local |-> Assign(local, sq)])]
             ELSE [quotes |-> [st.quotes EXCEPT ![i] = Settle(v, local)],
                   conflicts |-> st.conflicts]

\* MergeOne that does not push a record whose id the index does not hold
MergeOne_SkipsAbsent(v, index, st, sq) ==
  LET i == Lookup(v, index, KeyOf(v, sq))
  IN IF i = 0
     THEN st
     ELSE LET local == st.quotes[i]
          IN IF Differs(v, local, sq)
             THEN [quotes |-> [st.quotes EXCEPT ![i] = Assign(local, sq)],
                   conflicts |-> Append(st.conflicts,
                                        [id |-> KeyOf(v, sq), server |-> sq, local |-> local])]
             ELSE [quotes |-> [st.quotes EXCEPT ![i] = Settle(v, local)],
                   conflicts |-> st.conflicts]

\* MergeOne with the overwrite of a conflicting record left out (the local
\* version is kept)
MergeOne_KeepsLocal(v, index, st, sq) ==
  LET i == Lookup(v, index, KeyOf(v, sq))
  IN IF i = 0
     THEN [quotes |-> Append(st.quotes, sq), conflicts |-> st.conflicts]
     ELSE LET local == st.quotes[i]
          IN IF Differs(v, local, sq)
             THEN [quotes |-> st.quotes,
                   conflicts |-> Append(st.conflicts,
                                        [id |-> KeyOf(v, sq), server |-> sq, local |-> local])]
             ELSE [quotes |-> [st.quotes EXCEPT ![i] = Settle(v, local)],
                   conflicts |-> st.conflicts]

\* one iteration of serverQuotes.forEach; index is the store as it was when
\* the merge started, st = [quotes, conflicts] the running state
MergeOne(v, index, st, sq) ==
  LET i == Lookup(v, index, KeyOf(v, sq))
  IN IF i = 0
     THEN [quotes |-> Append(st.quotes, sq), conflicts |-> st.conflicts]
     ELSE LET local == st.quotes[i]
          IN IF Differs(v, local, sq)
             THEN [quotes |-> [st.quotes EXCEPT ![i] = Assign(local, sq)],
                   conflicts |-> Append(st.conflicts,
                                        [id |-> KeyOf(v, sq), server |-> sq, local |-> local])]
             ELSE [quotes |-> [st.quotes EXCEPT ![i] = Settle(v, local)],
                   conflicts |-> st.conflicts]

RECURSIVE MergeLoop(_, _, _, _)
MergeLoop(v, index, st, serverQuotes) ==
  IF serverQuotes = << >> THEN st
  ELSE MergeLoop(v, index, MergeOne(v, index, st, Head(serverQuotes)), Tail(serverQuotes))

\* mergeServerIntoLocal that treats the snapshot as the full state: every
\* record left in the store counts as synced
mergeServerIntoLocal_SettlesAll(v, qs, serverQuotes) ==
  LET m == MergeLoop(v, qs, [quotes |-> qs, conflicts |-> << >>], serverQuotes)
  IN [quotes |-> [i \in 1..Len(m.quotes) |-> Assign(m.quotes[i], [_dirty |-> FALSE])],
      conflicts |-> m.conflicts]

\* mergeServerIntoLocal that replaces the store by the snapshot
mergeServerIntoLocal_Replace(v, qs, serverQuotes) ==
  [quotes |-> serverQuotes, conflicts |-> << >>]

\* mergeServerIntoLocal: the store and the conflict list it computes
mergeServerIntoLocal(v, qs, serverQuotes) ==
  MergeLoop(v, qs, [quotes |-> qs, conflicts |-> << >>], serverQuotes)

(* ---------------------------- state ------------------------------------ *)
NoOp == [op |-> "none", c |-> 0, slot |-> 0, snap |-> << >>, nconf |-> 0, toast |-> ""]

\* the handler that ran last: its name, the cycle and the slot it worked on, the
\* mapped snapshot it merged, the number of conflicts it passed to
\* showConflictBanner, and the last message it passed to toast ("" for none)
Did(op, c, slot, snap, nconf, toast) ==
  [op |-> op, c |-> c, slot |-> slot, snap |-> snap, nconf |-> nconf, toast |-> toast]

Init ==
  /\ version \in Versions
  /\ quotes = InitialQuotes(version)
  /\ saved = IF version = "v1" THEN quotes ELSE << >>
  /\ conflictsLS = << >>
  /\ pc = [c \in Cycles |-> "idle"]
  /\ pushes = {}
  /\ started = 0
  /\ startDirty = [c \in Cycles |-> << >>]
  /\ pollTimer = 0
  /\ timers = {}
  /\ last = NoOp

\* the number of records the store may grow to
MaxQuotes == Len(InitialQuotes(version)) + MaxNew

\* q._dirty of every record, in store order
DirtyFlags(qs) == [i \in 1..Len(qs) |-> Dirty(qs[i])]

\* history: the dirty flags of the store as they were when the cycle in slot c
\* started, kept while the cycle runs and in the state in which it has just ended
Kept(pcNew, ended) ==
  [c \in Cycles |-> IF pcNew[c] # "idle" \/ c = ended THEN startDirty[c] ELSE << >>]

(* ---------------------------- local add -------------------------------- *)
\* Math.random().toString(36).slice(2, 6): a string that was not drawn before
FreshRand(qs) == ToString(Len(qs) + 1)

\* addQuote (v1), addQuoteWithSync (v2), the addQuote installed by wrapAdd (v3)
addQuote(rawText, rawCategory) ==
  LET text == Trim(rawText)
      r == FreshRand(quotes)
      category == Trim(rawCategory)
      rejected == version # "v2" /\ Len(text) < 3
  IN /\ Len(quotes) < MaxQuotes
     /\ IF rejected
        THEN /\ last' = Did("addRejected", 0, 0, << >>, 0, "")
             /\ UNCHANGED <<quotes, saved>>
        ELSE /\ quotes' = Append(quotes, mkLocalQuote(version, text, category, Now, r))
             /\ saved' = quotes'
             /\ last' = Did("addQuote", 0, Len(quotes) + 1, << >>, 0,
                            IF version = "v1" THEN "" ELSE "Added locally (will sync).")
     /\ startDirty' = Kept(pc, 0)
     /\ UNCHANGED <<version, conflictsLS, pc, pushes, started, pollTimer, timers>>

(* ---------------------------- sync cycle -------------------------------- *)
\* a cycle slot is free when no invocation runs in it and none of the pushes
\* it issued is still outstanding
FreeCycle(c) == pc[c] = "idle" /\ \A p \in pushes : p.c # c

NextCycle == CHOOSE c \in Cycles : FreeCycle(c) /\ \A d \in Cycles : FreeCycle(d) => c <= d

\* DirtySlots that keeps the first dirty quote only
DirtySlots_FirstOnly(qs) ==
  LET d == {i \in 1..Len(qs) : Dirty(qs[i])}
  IN {i \in d : \A j \in d : i <= j}

\* quotes.filter(q => q._dirty), as slots
DirtySlots(qs) == {i \in 1..Len(qs) : Dirty(qs[i])}

\* BeginCycle that skips the pushes and issues the fetch at once
BeginCycle_PullsOnly(op) ==
  /\ \E c \in Cycles : FreeCycle(c)
  /\ LET c == NextCycle
     IN /\ pc' = [pc EXCEPT ![c] = "pulling"]
        /\ pushes' = pushes
        /\ startDirty' = [Kept(pc', 0) EXCEPT ![c] = DirtyFlags(quotes)]
        /\ last' = Did(op, c, 0, << >>, 0, "")

\* syncQuotes / syncOnce up to the first await: the push of every dirty quote
\* is issued, or, when there is none, the fetch of the snapshot
BeginCycle(op) ==
  /\ \E c \in Cycles : FreeCycle(c)
  /\ LET c == NextCycle
         dirty == DirtySlots(quotes)
     IN /\ pc' = [pc EXCEPT ![c] = IF dirty # {} THEN "pushing" ELSE "pulling"]
        /\ pushes' = pushes \cup {[c |-> c, slot |-> i, orphan |-> FALSE] : i \in dirty}
        /\ startDirty' = [Kept(pc', 0) EXCEPT ![c] = DirtyFlags(quotes)]
        /\ last' = Did(op, c, 0, << >>, 0, "")

\* a call of syncQuotes / syncOnce, counted: at most MaxSyncs calls are made
BeginSync(op) ==
  /\ started < MaxSyncs
  /\ started' = started + 1
  /\ BeginCycle(op)

\* window.syncQuotes() / syncNow()
syncNow ==
  /\ BeginSync("syncNow")
  /\ UNCHANGED <<version, quotes, saved, conflictsLS, pollTimer, timers>>

Handles == {1, 2}

\* startQuotePolling without clearInterval(_pollTimer)
startQuotePolling_Stacks ==
  LET free == Handles \ timers
  IN /\ free # {}
     /\ LET h == CHOOSE x \in free : \A y \in free : x <= y
        IN /\ pollTimer' = h
           /\ timers' = timers \cup {h}
     /\ BeginSync("startPolling")
     /\ UNCHANGED <<version, quotes, saved, conflictsLS>>

\* startQuotePolling / startServerSync; setInterval returns a handle that no
\* timer has at the time of the call
startQuotePolling ==
  LET cleared == IF pollTimer # 0 THEN timers \ {pollTimer} ELSE timers
      free == Handles \ timers
  IN /\ free # {}
     /\ LET h == CHOOSE x \in free : \A y \in free : x <= y
        IN /\ pollTimer' = h
           /\ timers' = cleared \cup {h}
     /\ BeginSync("startPolling")
     /\ UNCHANGED <<version, quotes, saved, conflictsLS>>

\* stopQuotePolling that forgets the handle without clearInterval
stopQuotePolling_KeepsTimer ==
  /\ pollTimer' = 0
  /\ startDirty' = Kept(pc, 0)
  /\ last' = NoOp
  /\ UNCHANGED <<version, quotes, saved, conflictsLS, pc, pushes, started, timers>>

\* stopQuotePolling / stopServerSync
stopQuotePolling ==
  /\ timers' = IF pollTimer # 0 THEN timers \ {pollTimer} ELSE timers
  /\ pollTimer' = 0
  /\ startDirty' = Kept(pc, 0)
  /\ last' = NoOp
  /\ UNCHANGED <<version, quotes, saved, conflictsLS, pc, pushes, started>>

\* the callback of an active interval timer
TimerFires ==
  /\ timers # {}
  /\ BeginSync("timer")
  /\ UNCHANGED <<version, quotes, saved, conflictsLS, pollTimer, timers>>

(* ---------------------------- push ------------------------------------- *)
\* Renamed without the srv- prefix
Renamed_NoPrefix(q, pid) == IF pid # 0 THEN <<ToString(pid)>> ELSE IdString(q)

\* if (!String(quote.id).startsWith("srv-")) quote.id = `srv-${payload.id || quote.id}`
Renamed(q, pid) ==
  IF Head(IdString(q)) = "srv" THEN IdString(q)
  ELSE <<"srv">> \o (IF pid # 0 THEN <<ToString(pid)>> ELSE IdString(q))

\* Acked without quote._dirty = false
Acked_KeepsDirty(v, q, pid, t) ==
  CASE v = "v1" -> Assign(q, [id |-> Renamed(q, pid)])
    [] v = "v2" -> Assign(q, [updatedAt |-> t, _src |-> "server"])
    [] OTHER -> Assign(q, [_src |-> "server", updatedAt |-> t, id |-> Renamed(q, pid)])

\* what a successful answer does to the pushed quote
Acked(v, q, pid, t) ==
  CASE v = "v1" -> Assign(q, [_dirty |-> FALSE, id |-> Renamed(q, pid)])
    [] v = "v2" -> Assign(q, [_dirty |-> FALSE, updatedAt |-> t, _src |-> "server"])
    [] OTHER -> Assign(q, [_dirty |-> FALSE, _src |-> "server", updatedAt |-> t,
                           id |-> Renamed(q, pid)])

PushesOf(c) == {p \in pushes : p.c = c /\ ~p.orphan}

\* AfterPush that goes on to the pull as soon as one push has settled
AfterPush_First(p, qs) ==
  IF ~p.orphan
  THEN /\ saved' = qs
       /\ pc' = [pc EXCEPT ![p.c] = "pulling"]
  ELSE UNCHANGED <<saved, pc>>

\* AfterPush that never goes on to the pull
AfterPush_Stays(p, qs) == UNCHANGED <<saved, pc>>

\* the push phase of the cycle of p goes on to the pull when p was its last
\* outstanding push: saveQuotes(), then the fetch is issued
AfterPush(p, qs) ==
  IF ~p.orphan /\ PushesOf(p.c) = {p}
  THEN /\ saved' = qs
       /\ pc' = [pc EXCEPT ![p.c] = "pulling"]
  ELSE UNCHANGED <<saved, pc>>

\* a push is answered ok
PushOk(p, pid) ==
  /\ p \in pushes
  /\ quotes' = [quotes EXCEPT ![p.slot] = Acked(version, quotes[p.slot], pid, Now)]
  /\ pushes' = pushes \ {p}
  /\ AfterPush(p, quotes')
  /\ startDirty' = Kept(pc', 0)
  /\ last' = Did("pushOk", p.c, p.slot, << >>, 0, "")
  /\ UNCHANGED <<version, conflictsLS, started, pollTimer, timers>>

\* PushFail that marks the quote as synced whatever the answer
PushFail_MarksSynced(p, how) ==
  /\ p \in pushes
  /\ quotes' = [quotes EXCEPT ![p.slot] = Assign(quotes[p.slot], [_dirty |-> FALSE])]
  /\ pushes' = pushes \ {p}
  /\ AfterPush(p, quotes')
  /\ startDirty' = Kept(pc', 0)
  /\ last' = Did("pushFail", p.c, p.slot, << >>, 0, "")
  /\ UNCHANGED <<version, conflictsLS, started, pollTimer, timers>>

\* a push fails: fetch rejects ("reject") or the answer is not ok ("notok")
PushFail(p, how) ==
  /\ p \in pushes
  /\ IF version = "v2" /\ how = "reject" /\ ~p.orphan
     THEN \* Promise.all rejects at once; syncOnce catches; the other pushes go on
          /\ pushes' = {IF q.c = p.c THEN [q EXCEPT !.orphan = TRUE] ELSE q : q \in pushes \ {p}}
          /\ pc' = [pc EXCEPT ![p.c] = "idle"]
          /\ startDirty' = Kept(pc', p.c)
          /\ last' = Did("pushAbort", p.c, p.slot, << >>, 0, "Sync failed. Check console.")
          /\ UNCHANGED saved
     ELSE /\ pushes' = pushes \ {p}
          /\ AfterPush(p, quotes)
          /\ startDirty' = Kept(pc', 0)
          /\ last' = Did("pushFail", p.c, p.slot, << >>, 0, "")
  /\ UNCHANGED <<version, quotes, conflictsLS, started, pollTimer, timers>>

(* ---------------------------- pull and merge --------------------------- *)
Snapshots == UNION {[1..n -> Posts] : n \in 0..MaxSnap}

\* PullOk that merges into the store as the cycle saw it when it started: the
\* records appended since are dropped
PullOk_StaleStore(c, posts) ==
  /\ pc[c] = "pulling"
  /\ LET serverQuotes == MapPosts(version, posts, Now)
         stale == SubSeq(quotes, 1, Len(startDirty[c]))
         m == mergeServerIntoLocal(version, stale, serverQuotes)
     IN /\ Len(m.quotes) <= MaxQuotes
        /\ quotes' = m.quotes
        /\ saved' = quotes'
        /\ conflictsLS' = IF m.conflicts # << >> THEN m.conflicts ELSE conflictsLS
        /\ last' = Did("merge", c, 0, serverQuotes, Len(m.conflicts), "Sync complete.")
  /\ pc' = [pc EXCEPT ![c] = "idle"]
  /\ pushes' = {p \in pushes : p.slot <= Len(quotes')}
  /\ startDirty' = Kept(pc', c)
  /\ UNCHANGED <<version, started, pollTimer, timers>>

\* the fetch answers ok with posts: the snapshot is mapped and merged
PullOk(c, posts) ==
  /\ pc[c] = "pulling"
  /\ LET serverQuotes == MapPosts(version, posts, Now)
         m == mergeServerIntoLocal(version, quotes, serverQuotes)
     IN /\ Len(m.quotes) <= MaxQuotes
        /\ quotes' = m.quotes
        /\ saved' = quotes'
        /\ conflictsLS' = IF m.conflicts # << >> THEN m.conflicts ELSE conflictsLS
        /\ last' = Did("merge", c, 0, serverQuotes, Len(m.conflicts), "Sync complete.")
  /\ pc' = [pc EXCEPT ![c] = "idle"]
  /\ startDirty' = Kept(pc', c)
  /\ UNCHANGED <<version, pushes, started, pollTimer, timers>>

\* PullFail that also clears the polling timer
PullFail_StopsPolling(c) ==
  /\ pc[c] = "pulling"
  /\ pc' = [pc EXCEPT ![c] = "idle"]
  /\ startDirty' = Kept(pc', c)
  /\ timers' = {}
  /\ pollTimer' = 0
  /\ last' = Did("pullFail", c, 0, << >>, 0, "Sync failed. See console.")
  /\ UNCHANGED <<version, quotes, saved, conflictsLS, pushes, started>>

\* PullFail that marks every record dirty again, to have it pushed anew
PullFail_RedoesPushes(c) ==
  /\ pc[c] = "pulling"
  /\ quotes' = [i \in 1..Len(quotes) |-> Assign(quotes[i], [_dirty |-> TRUE])]
  /\ pc' = [pc EXCEPT ![c] = "idle"]
  /\ startDirty' = Kept(pc', c)
  /\ last' = Did("pullFail", c, 0, << >>, 0, "Sync failed. See console.")
  /\ UNCHANGED <<version, saved, conflictsLS, pushes, started, pollTimer, timers>>

\* the fetch rejects or answers not ok
PullFail(c) ==
  /\ pc[c] = "pulling"
  /\ pc' = [pc EXCEPT ![c] = "idle"]
  /\ startDirty' = Kept(pc', c)
  /\ last' = Did("pullFail", c, 0, << >>, 0,
                 CASE version = "v1" -> "Sync failed. See console."
                   [] version = "v2" -> "Sync failed. Check console."
                   [] OTHER -> "")
  /\ UNCHANGED <<version, quotes, saved, conflictsLS, pushes, started, pollTimer, timers>>

(* ---------------------------- manual override (v2) --------------------- *)
\* quotes.find(q => key(q) === id), as a slot; 0 when there is none
Find(v, qs, key) ==
  LET hits == {i \in 1..Len(qs) : KeyOf(v, qs[i]) = key}
  IN IF hits = {} THEN 0 ELSE CHOOSE i \in hits : \A j \in hits : i <= j

\* restoreLocal without { _dirty: true }
restoreLocal_NoDirty(idx) ==
  /\ version = "v2"
  /\ idx \in 1..Len(conflictsLS)
  /\ LET c == conflictsLS[idx]
         target == Find(version, quotes, c.id)
     IN /\ quotes' = IF target = 0 THEN quotes
                     ELSE [quotes EXCEPT ![target] =
                             Assign(Assign(quotes[target], c.local), [updatedAt |-> Now])]
        /\ last' = Did("restore", 0, target, << >>, 0,
                       "Local version restored (will push on next sync).")
  /\ saved' = quotes'
  /\ startDirty' = Kept(pc, 0)
  /\ UNCHANGED <<version, conflictsLS, pc, pushes, started, pollTimer, timers>>

\* the banner's View button, then the Restore Local Version button of row idx
\* of the modal it opens: openConflictsModal lists loadConflicts(), the
\* button's handler restores list[idx].local
restoreLocal(idx) ==
  /\ version = "v2"
  /\ idx \in 1..Len(conflictsLS)
  /\ LET c == conflictsLS[idx]
         target == Find(version, quotes, c.id)
     IN /\ quotes' = IF target = 0 THEN quotes
                     ELSE [quotes EXCEPT ![target] =
                             Assign(Assign(quotes[target], c.local),
                                    [_dirty |-> TRUE, updatedAt |-> Now])]
        /\ last' = Did("restore", 0, target, << >>, 0,
                       "Local version restored (will push on next sync).")
  /\ saved' = quotes'
  /\ startDirty' = Kept(pc, 0)
  /\ UNCHANGED <<version, conflictsLS, pc, pushes, started, pollTimer, timers>>

(* ---------------------------- specification ---------------------------- *)
Next ==
  \/ \E t \in InputTexts, g \in InputCategories : addQuote(t, g)
  \/ syncNow
  \/ startQuotePolling
  \/ stopQuotePolling
  \/ TimerFires
  \/ \E p \in pushes, pid \in PayloadIds : PushOk(p, pid)
  \/ \E p \in pushes, how \in {"reject", "notok"} : PushFail(p, how)
  \/ \E c \in Cycles, posts \in Snapshots : PullOk(c, posts)
  \/ \E c \in Cycles : PullFail(c)
  \/ \E idx \in 1..MaxSnap : restoreLocal(idx)

Spec == Init /\ [][Next]_vars

(* ---------------------------- answers of the gateway ------------------- *)
MaxLiveSyncs == 2

\* the program with at most MaxLiveSyncs cycles started
LiveNext ==
  \/ \E t \in InputTexts, g \in InputCategories : addQuote(t, g)
  \/ syncNow /\ started' <= MaxLiveSyncs
  \/ startQuotePolling /\ started' <= MaxLiveSyncs
  \/ stopQuotePolling
  \/ TimerFires /\ started' <= MaxLiveSyncs
  \/ \E p \in pushes, pid \in PayloadIds : PushOk(p, pid)
  \/ \E p \in pushes, how \in {"reject", "notok"} : PushFail(p, how)
  \/ \E c \in Cycles, posts \in Snapshots : PullOk(c, posts)
  \/ \E c \in Cycles : PullFail(c)
  \/ \E idx \in 1..MaxSnap : restoreLocal(idx)

\* a call of the cycle in slot c returns or fails: one of its POSTs or its GET
SettlesOf(c) ==
  \/ \E p \in pushes, pid \in PayloadIds : p.c = c /\ PushOk(p, pid)
  \/ \E p \in pushes, how \in {"reject", "notok"} : p.c = c /\ PushFail(p, how)
  \/ \E posts \in Snapshots : PullOk(c, posts)
  \/ PullFail(c)

\* every call of the gateway that is outstanding eventually returns or fails
SpecLive == Init /\ [][LiveNext]_vars /\ \A c \in Cycles : WF_vars(SettlesOf(c))

(* ---------------------------- polling without end ----------------------- *)
\* the callback of an active interval timer, any number of times
Tick ==
  /\ timers # {}
  /\ BeginCycle("timer")
  /\ UNCHANGED <<version, quotes, saved, conflictsLS, started, pollTimer, timers>>

\* the POST of the quote in slot i is answered ok
PushOkOf(i) == \E p \in pushes, pid \in PayloadIds : p.slot = i /\ PushOk(p, pid)

MaxPollNew == 1
MaxPollSnap == 1

\* the store has at most MaxPollNew records more than at the start
PollStore(qs) == Len(qs) <= Len(InitialQuotes(version)) + MaxPollNew

PollSnapshots == {posts \in Snapshots : Len(posts) <= MaxPollSnap}

\* the program with polling switched on and left on, the store and the
\* snapshots kept small
PollNext ==
  \/ \E t \in InputTexts, g \in InputCategories : addQuote(t, g) /\ PollStore(quotes')
  \/ startQuotePolling
  \/ Tick
  \/ \E p \in pushes, pid \in PayloadIds : PushOk(p, pid)
  \/ \E p \in pushes, how \in {"reject", "notok"} : PushFail(p, how)
  \/ \E c \in Cycles, posts \in PollSnapshots : PullOk(c, posts) /\ PollStore(quotes')
  \/ \E c \in Cycles : PullFail(c)
  \/ \E idx \in 1..MaxSnap : restoreLocal(idx)

\* the timer ticks as long as it is set, every call of the gateway returns or
\* fails, and of the POSTs of a quote that are made again and again one is
\* answered ok
SpecPoll ==
  /\ Init
  /\ [][PollNext]_vars
  /\ WF_vars(Tick)
  /\ \A c \in Cycles : WF_vars(SettlesOf(c))
  /\ \A i \in 1..(2 + MaxPollNew) : SF_vars(PushOkOf(i))

(* ---------------------------- bulk import ------------------------------ *)
\* The import handler of the store, in the versions that have one:
\*   "v0"  src/dom-manipulation/script.js lines 287-383
\*   "v1"  src/unnamed/part_000          lines 445-477
\*   "v2"  src/dom-manipulation/script.js lines 501-527
ImportVersions == {"v0", "v1", "v2"}

MaxImport == 3
MaxBatch == 2

\* the entries of an imported file: two with a string text, one without text
Entries ==
  {[text |-> "Beta", category |-> "Life"], [text |-> "Gamma"], [category |-> "Life"]}

\* JSON.parse(e.target.result): an array of entries, or a value that is none
Batches == [list : {TRUE}, items : UNION {[1..n -> Entries] : n \in 0..MaxBatch}]
             \cup {[list |-> FALSE, items |-> << >>]}

\* x && typeof x.text === "string"
ValidEntry(x) == Has(x, "text")

\* localStorage after saveQuotes() of script.js 293 called without its
\* argument: JSON.stringify(undefined)
SavedUndefined == << [raw |-> "undefined"] >>

\* .filter(...).map(...) of the import, r the number of quotes before it
RECURSIVE Cleaned(_, _, _)
Cleaned(v, items, r) ==
  IF items = << >> THEN << >>
  ELSE LET x == Head(items)
           category == IF Has(x, "category") THEN Trim(x.category) ELSE ""
           q == IF v = "v1"
                THEN [id |-> <<"imp", Now, ToString(r + 1)>>, text |-> Trim(x.text),
                      category |-> category, _dirty |-> TRUE]
                ELSE [text |-> Trim(x.text), category |-> category]
       IN IF ValidEntry(x)
          THEN <<q>> \o Cleaned(v, Tail(items), r + 1)
          ELSE Cleaned(v, Tail(items), r)

InitImport ==
  /\ version \in ImportVersions
  /\ quotes = IF version = "v1" THEN DEFAULT_QUOTES_v1 ELSE DEFAULT_QUOTES_v2
  /\ saved = IF version = "v1" THEN quotes ELSE << >>
  /\ conflictsLS = << >>
  /\ pc = [c \in Cycles |-> "idle"]
  /\ pushes = {}
  /\ started = 0
  /\ startDirty = [c \in Cycles |-> << >>]
  /\ pollTimer = 0
  /\ timers = {}
  /\ last = NoOp

\* reader.onload of importFromJsonFile, for the parsed file b
importFromJsonFile(b) ==
  /\ Len(quotes) + Len(b.items) <= 2 + MaxImport
  /\ IF version = "v0"
     THEN IF b.list
          THEN /\ quotes' = quotes \o b.items
               /\ saved' = SavedUndefined
               /\ last' = Did("import", 0, 0, << >>, 0, "Quotes imported successfully!")
          ELSE \* quotes.push(...importedQuotes) throws: not iterable
               /\ last' = Did("importThrew", 0, 0, << >>, 0, "")
               /\ UNCHANGED <<quotes, saved>>
     ELSE LET cleaned == Cleaned(version, b.items, Len(quotes))
          IN IF b.list /\ cleaned # << >>
             THEN /\ quotes' = quotes \o cleaned
                  /\ saved' = quotes'
                  /\ last' = Did("import", 0, 0, << >>, 0, "Quotes imported successfully!")
             ELSE /\ last' = Did("importFailed", 0, 0, << >>, 0,
                                 IF b.list THEN "Import failed: No valid quotes found."
                                 ELSE "Import failed: JSON must be an array of {text, category}")
                  /\ UNCHANGED <<quotes, saved>>
  /\ UNCHANGED <<version, conflictsLS, pc, pushes, started, startDirty, pollTimer, timers>>

\* addQuote_form without the test of the length of the text
addQuote_form_NoCheck(rawText, rawCategory) ==
  /\ Len(quotes) + 1 <= 2 + MaxImport
  /\ quotes' = Append(quotes, [text |-> Trim(rawText), category |-> Trim(rawCategory)])
  /\ saved' = quotes'
  /\ last' = Did("addQuote", 0, Len(quotes) + 1, << >>, 0, "")
  /\ UNCHANGED <<version, conflictsLS, pc, pushes, started, startDirty, pollTimer, timers>>

\* addQuote of the form: script.js 351-368 ("v0"), part_000 409-426 ("v1"),
\* script.js 464-484 ("v2")
addQuote_form(rawText, rawCategory) ==
  LET text == Trim(rawText)
      category == Trim(rawCategory)
      q == IF version = "v1"
           THEN [id |-> <<"loc", Now, FreshRand(quotes)>>, text |-> text,
                 category |-> category, _dirty |-> TRUE]
           ELSE [text |-> text, category |-> category]
  IN /\ Len(quotes) + 1 <= 2 + MaxImport
     /\ IF Len(text) < 3
        THEN /\ last' = Did("addRejected", 0, 0, << >>, 0, "")
             /\ UNCHANGED <<quotes, saved>>
        ELSE /\ quotes' = Append(quotes, q)
             /\ saved' = quotes'
             /\ last' = Did("addQuote", 0, Len(quotes) + 1, << >>, 0, "")
     /\ UNCHANGED <<version, conflictsLS, pc, pushes, started, startDirty, pollTimer, timers>>

NextImport ==
  \/ \E b \in Batches : importFromJsonFile(b)
  \/ \E t \in InputTexts, g \in InputCategories : addQuote_form(t, g)

SpecImport == InitImport /\ [][NextImport]_vars

(* ---------------------------- page load -------------------------------- *)
\* The persisted slot "quotes.data.v1" is held in saved: the array that
\* JSON.stringify wrote (its texts, flags and numbers parse back as they were
\* written), or one of three contents that are no array:
\* no item at all (getItem returns null)
SavedAbsent == << [raw |-> ""] >>

\* an item that parses to a value that is truthy and no array
SavedObject == << [raw |-> "{}"] >>

\* Array.isArray of what JSON.parse gives for the slot; "undefined" does not parse
IsList(slot) == slot \notin {SavedAbsent, SavedUndefined, SavedObject}

\* .filter(q => q && typeof q.text === "string").map(q => ({ text, category }))
RECURSIVE Stripped(_)
Stripped(items) ==
  IF items = << >> THEN << >>
  ELSE LET q == Head(items)
       IN IF Has(q, "text")
          THEN <<[text |-> Trim(q.text),
                  category |-> IF Has(q, "category") THEN Trim(q.category) ELSE ""]>>
               \o Stripped(Tail(items))
          ELSE Stripped(Tail(items))

\* the value of quotes after the start-up code: part_000 335-340 ("v1"),
\* script.js 412-420 ("v2"), script.js 939-945 ("v3")
Loaded(v, slot) ==
  CASE v = "v1" -> IF IsList(slot) THEN slot ELSE DEFAULT_QUOTES_v1
    [] v = "v2" -> IF IsList(slot) THEN Stripped(slot) ELSE DEFAULT_QUOTES_v2
    [] OTHER -> IF slot \in {SavedAbsent, SavedUndefined} THEN << >> ELSE slot

\* the slot after the start-up code: part_000 338 writes the defaults
SlotAfterLoad(v, slot) ==
  IF v = "v1" /\ ~IsList(slot) THEN DEFAULT_QUOTES_v1 ELSE slot

\* what the page finds in the slot when it is opened first
Slots == {SavedAbsent, SavedUndefined, SavedObject, << >>}

InitLoad ==
  /\ version \in Versions
  /\ quotes = << >>
  /\ saved \in Slots
  /\ conflictsLS = << >>
  /\ pc = [c \in Cycles |-> "idle"]
  /\ pushes = {}
  /\ started = 0
  /\ startDirty = [c \in Cycles |-> << >>]
  /\ pollTimer = 0
  /\ timers = {}
  /\ last = NoOp

\* the script runs: the page is opened, or opened again
pageLoad ==
  /\ quotes' = Loaded(version, saved)
  /\ saved' = SlotAfterLoad(version, saved)
  /\ last' = Did("load", 0, 0, << >>, 0, "")
  /\ UNCHANGED <<version, conflictsLS, pc, pushes, started, startDirty, pollTimer, timers>>

\* the page is loaded, quotes are added (each add saves the store), the page is
\* loaded again
NextLoad ==
  \/ pageLoad
  \/ /\ last.op # "none"
     /\ IsList(quotes)
     /\ \E t \in InputTexts, g \in InputCategories : addQuote(t, g)

SpecLoad == InitLoad /\ [][NextLoad]_vars

(* ---------------------------- claims ----------------------------------- *)
TypeOK ==
  /\ version \in Versions
  /\ Len(quotes) <= MaxQuotes
  /\ started \in 0..MaxSyncs
  /\ \A c \in Cycles : pc[c] \in {"idle", "pushing", "pulling"}
  /\ \A p \in pushes : p.slot \in 1..Len(quotes)
  /\ pollTimer \in {0} \cup Handles

Running == {c \in Cycles : pc[c] # "idle"}

\* text or category of a store record and of a remote record differ
TextOrCategoryDiffer(a, b) == a.text # b.text \/ CategoryOrEmpty(a) # CategoryOrEmpty(b)

TextAndCategoryOf(a, b) == a.text = b.text /\ CategoryOrEmpty(a) = CategoryOrEmpty(b)

\* C1: at most one sync cycle is in flight at any time (a trigger that comes
\* while a cycle is pushing or pulling starts nothing).
C1_AtMostOneCycle == Cardinality(Running) <= 1

\* C2: no two records of the store that have an id have the same id.
C2_UniqueIds ==
  \A i, j \in 1..Len(quotes) :
    (i # j /\ Has(quotes[i], "id") /\ Has(quotes[j], "id")) => quotes[i].id # quotes[j].id

\* C3 as stated: after a merge, every store record whose id is that of a remote
\* record of the snapshot and whose text or category differed from it has the
\* text and the category of that remote record.
C3_EveryRemoteRecordWins ==
  [][last'.op = "merge" =>
       \A k \in 1..Len(last'.snap) : \A i \in 1..Len(quotes) :
         (KeyOf(version, quotes[i]) = last'.snap[k].id
            /\ TextOrCategoryDiffer(quotes[i], last'.snap[k]))
         => TextAndCategoryOf(quotes'[i], last'.snap[k])]_vars

\* the snapshot has no later record with the id of its k-th record
LastWithId(snap, k) == \A m \in (k + 1)..Len(snap) : snap[m].id # snap[k].id

\* C3 amended: server wins for the record the merge looks up.  For every remote
\* record that is the last of the snapshot with its id, if the record the merge
\* index holds for that id (the last store record with the id) differed from it
\* in text or category, that record has the remote text and category after the
\* merge, whatever its dirty flag was.
C3_ServerWins ==
  [][last'.op = "merge" =>
       \A k \in 1..Len(last'.snap) :
         LET sq == last'.snap[k]
             i == Lookup(version, quotes, sq.id)
         IN (i # 0 /\ LastWithId(last'.snap, k) /\ TextOrCategoryDiffer(quotes[i], sq))
            => TextAndCategoryOf(quotes'[i], sq)]_vars

\* a merge has just overwritten a record that was dirty with the server's version
C3_Witness ==
  /\ last.op = "merge"
  /\ last.nconf >= 1
  /\ \E n \in 1..Len(conflictsLS) :
       /\ Dirty(conflictsLS[n].local)
       /\ \E i \in 1..Len(quotes) :
            /\ KeyOf(version, quotes[i]) = conflictsLS[n].id
            /\ quotes[i].text = conflictsLS[n].server.text
            /\ quotes[i].text # conflictsLS[n].local.text

\* C4 as stated: the number of conflicts a merge records is the number of remote
\* records of the snapshot whose id was in the store before the merge with a
\* differing text or category.
C4_CountsRemoteRecordsThatDiffered ==
  [][last'.op = "merge" =>
       last'.nconf =
         Cardinality({k \in 1..Len(last'.snap) :
                        \E i \in 1..Len(quotes) :
                          /\ KeyOf(version, quotes[i]) = last'.snap[k].id
                          /\ TextOrCategoryDiffer(quotes[i], last'.snap[k])})]_vars

\* the position of the record before the k-th with the same id, 0 if none
PrevWithId(snap, k) ==
  LET before == {m \in 1..(k - 1) : snap[m].id = snap[k].id}
  IN IF before = {} THEN 0 ELSE CHOOSE m \in before : \A n \in before : n <= m

\* C4 amended: the number of conflicts a merge records, and the length of the
\* list it persists when there is one, is the number of remote records whose id
\* the merge index holds before the merge and whose text or category differs
\* from the record compared with: the previous snapshot record with that id, or
\* for the first one the indexed store record.  A remote record whose id is
\* absent records none.
C4_ConflictCount ==
  [][last'.op = "merge" =>
       LET snap == last'.snap
           hit == {k \in 1..Len(snap) :
                     LET i == Lookup(version, quotes, snap[k].id)
                         m == PrevWithId(snap, k)
                     IN /\ i # 0
                        /\ TextOrCategoryDiffer(IF m = 0 THEN quotes[i] ELSE snap[m], snap[k])}
       IN /\ last'.nconf = Cardinality(hit)
          /\ (hit # {} => Len(conflictsLS') = Cardinality(hit))]_vars

\* a merge has just recorded a conflict for one remote record and none for
\* another one, with another id
C4_Witness ==
  /\ last.op = "merge"
  /\ Len(last.snap) = 2
  /\ last.snap[1].id # last.snap[2].id
  /\ last.nconf = 1
  /\ Len(conflictsLS) = 1

\* what the data model sees of a record: a missing _dirty reads as false
View(q) ==
  [id |-> IdOf(q), text |-> q.text, category |-> CategoryOrEmpty(q), dirty |-> Dirty(q),
   origin |-> IF Has(q, "_src") THEN q._src ELSE "",
   updatedAt |-> IF Has(q, "updatedAt") THEN q.updatedAt ELSE ""]

Views(qs) == [i \in 1..Len(qs) |-> View(qs[i])]

\* records of the snapshot with the same id have the same text and category
Consistent(snap) ==
  \A k, m \in 1..Len(snap) :
    snap[k].id = snap[m].id => TextAndCategoryOf(snap[k], snap[m])

\* C5: merging a snapshot once more right after it was merged records no
\* conflict and leaves the record sequence and every record's id, text,
\* category, origin, timestamp and dirty state as they are (stated for the
\* snapshots whose records with the same id agree in text and category).
C5_Idempotent ==
  [][(last'.op = "merge" /\ Consistent(last'.snap)) =>
       LET again == mergeServerIntoLocal(version, quotes', last'.snap)
       IN again.conflicts = << >> /\ Views(again.quotes) = Views(quotes')]_vars

\* C6: a successful push clears the dirty flag of the pushed record and changes
\* no other record's dirty flag; a failed push changes no dirty flag.
C6_DirtyClearsOnSuccess ==
  [][/\ last'.op = "pushOk" =>
          /\ Len(quotes') = Len(quotes)
          /\ ~Dirty(quotes'[last'.slot])
          /\ \A j \in 1..Len(quotes) :
               j # last'.slot => Dirty(quotes'[j]) = Dirty(quotes[j])
     /\ last'.op \in {"pushFail", "pushAbort"} => DirtyFlags(quotes') = DirtyFlags(quotes)]_vars

\* a push has just succeeded while another record is still dirty
C6_Witness ==
  /\ last.op = "pushOk"
  /\ ~Dirty(quotes[last.slot])
  /\ \E j \in 1..Len(quotes) : j # last.slot /\ Dirty(quotes[j])

\* C7: a push that fails leaves the store as it is: the record is still there
\* with the id, text, category and dirty flag it had before the failure.
C7_NoLossOnPushFailure ==
  [][last'.op \in {"pushFail", "pushAbort"} =>
       /\ quotes' = quotes
       /\ last'.slot \in 1..Len(quotes')]_vars

\* a push of a dirty record has just failed and the record is still dirty
C7_Witness ==
  /\ last.op \in {"pushFail", "pushAbort"}
  /\ Dirty(quotes[last.slot])

\* C8: a push failure never aborts the cycle: after it the cycle is still
\* pushing or has gone on to the pull.
C8_PushFailureNeverAborts ==
  last.op \in {"pushFail", "pushAbort"} => pc[last.c] \in {"pushing", "pulling"}

\* C9: when the fetch of the snapshot fails the cycle is idle again and a
\* failure message has been passed to the notifier.
C9_PullFailureIsNotified ==
  last.op = "pullFail" =>
    /\ pc[last.c] = "idle"
    /\ last.toast \in {"Sync failed. See console.", "Sync failed. Check console."}

\* C10 as stated: when a cycle ends with a pull failure every record that was
\* in the store when the cycle started has the dirty flag it had then.
C10_DirtyFlagsAsAtCycleStart ==
  last.op = "pullFail" =>
    \A i \in 1..Len(startDirty[last.c]) :
      i <= Len(quotes) /\ Dirty(quotes[i]) = startDirty[last.c][i]

\* C10 amended: the failure of the pull changes nothing: the store, the
\* persisted list and the conflict log are as they were when the fetch failed
\* (dirty flags cleared by the pushes of the cycle stay cleared).
C10_PullFailureChangesNothing ==
  [][last'.op = "pullFail" =>
       /\ quotes' = quotes
       /\ saved' = saved
       /\ conflictsLS' = conflictsLS]_vars

\* a cycle has just ended with a pull failure after one of its pushes cleared a flag
C10_Witness ==
  /\ last.op = "pullFail"
  /\ \E i \in 1..Len(startDirty[last.c]) : startDirty[last.c][i] /\ ~Dirty(quotes[i])

\* the snapshot has no other record with the id of its k-th record
OnlyWithId(snap, k) == \A m \in 1..Len(snap) : m # k => snap[m].id # snap[k].id

\* the conflicts a merge step has recorded name no record with this id
NoConflictFor(id, nconf, log) == nconf > 0 => \A n \in 1..Len(log) : log[n].id # id

\* C11: a merge inserts every remote record whose id is absent from the store
\* with the remote id, text and category, origin "server" and a dirty flag
\* that is not set, and records no conflict for it.
C11_InsertsAbsentRecords ==
  [][last'.op = "merge" =>
       \A k \in 1..Len(last'.snap) :
         LET sq == last'.snap[k]
         IN Lookup(version, quotes, sq.id) = 0 =>
              /\ \E i \in (Len(quotes) + 1)..Len(quotes') :
                   /\ IdOf(quotes'[i]) = sq.id
                   /\ TextAndCategoryOf(quotes'[i], sq)
                   /\ ~Dirty(quotes'[i])
                   /\ Has(quotes'[i], "_src")
                   /\ quotes'[i]._src = "server"
              /\ NoConflictFor(sq.id, last'.nconf, conflictsLS')]_vars

\* C12: for a remote record whose id the store holds with equal text and
\* category, a merge clears the dirty flag of the record it looks up, sets its
\* origin to "server", leaves its id, text and category, and records no
\* conflict (stated for the ids the snapshot lists once).
C12_SettlesEqualRecords ==
  [][last'.op = "merge" =>
       \A k \in 1..Len(last'.snap) :
         LET sq == last'.snap[k]
             i == Lookup(version, quotes, sq.id)
         IN (i # 0 /\ OnlyWithId(last'.snap, k) /\ ~TextOrCategoryDiffer(quotes[i], sq)) =>
              /\ ~Dirty(quotes'[i])
              /\ Has(quotes'[i], "_src")
              /\ quotes'[i]._src = "server"
              /\ IdOf(quotes'[i]) = IdOf(quotes[i])
              /\ TextAndCategoryOf(quotes'[i], quotes[i])
              /\ NoConflictFor(sq.id, last'.nconf, conflictsLS')]_vars

BeginOps == {"syncNow", "startPolling", "timer"}

Failures == {"pushFail", "pushAbort", "pullFail"}

\* C13: restoring the local version of a logged conflict gives the store
\* record found for the conflict's id the text and category of the local
\* snapshot and marks it dirty, and a sync cycle that starts next issues a
\* push of that record.
C13_RestoreIsPushedNext ==
  [][/\ (last'.op = "restore" /\ last'.slot # 0) =>
          /\ Dirty(quotes'[last'.slot])
          /\ \E n \in 1..Len(conflictsLS) :
               /\ conflictsLS[n].id = KeyOf(version, quotes'[last'.slot])
               /\ TextAndCategoryOf(quotes'[last'.slot], conflictsLS[n].local)
     /\ (last.op = "restore" /\ last.slot # 0 /\ last'.op \in BeginOps) =>
          \E p \in pushes' : p.slot = last.slot /\ p.c = last'.c /\ ~p.orphan]_vars

\* a cycle has just started and pushes a record with a server id that a
\* restore made dirty
C13_Witness ==
  /\ version = "v2"
  /\ last.op \in BeginOps
  /\ \E p \in pushes :
       /\ p.c = last.c
       /\ Dirty(quotes[p.slot])
       /\ Head(IdString(quotes[p.slot])) = "srv"
       /\ \E n \in 1..Len(conflictsLS) :
            /\ conflictsLS[n].id = IdOf(quotes[p.slot])
            /\ conflictsLS[n].local.text = quotes[p.slot].text

\* C14: at most one repeating timer is active, and it is the one whose handle
\* the program holds.
C14_OneTimer == Cardinality(timers) <= 1 /\ timers \subseteq {pollTimer}

\* polling was started while it was active: the second timer replaced the first
C14_Witness == last.op = "startPolling" /\ pollTimer = 2 /\ timers = {2}

\* C15: starting the polling starts a sync at once, a timer tick starts a sync
\* only while the timer of the polling is active, and the step that stops the
\* polling leaves no timer.
C15_TicksOnlyWhilePolling ==
  [][/\ last'.op = "startPolling" =>
          /\ started' = started + 1
          /\ pc'[last'.c] # "idle"
          /\ timers' = {pollTimer'}
     /\ last'.op = "timer" =>
          /\ pollTimer # 0
          /\ pollTimer \in timers
          /\ started' = started + 1
          /\ pc'[last'.c] # "idle"
     /\ (pollTimer # 0 /\ pollTimer' = 0) => timers' = {}]_vars

\* a tick of the polling timer has just started a sync, after the one of the start
C15_Witness == last.op = "timer" /\ pollTimer \in timers /\ started >= 2

\* C16: a push or pull failure leaves the polling timer as it is, and a tick
\* that comes next starts a new cycle.
C16_FailureKeepsPolling ==
  [][/\ last'.op \in Failures => timers' = timers /\ pollTimer' = pollTimer
     /\ (last.op \in Failures /\ last'.op = "timer") =>
          pc'[last'.c] # "idle" /\ started' = started + 1]_vars

\* a pull has just failed while the polling timer is active
C16_Witness == last.op = "pullFail" /\ pollTimer # 0 /\ timers = {pollTimer}

\* C17: every failure in a cycle is reported: a push that fails passes a
\* message to the notifier.
C17_EveryPushFailureReported == last.op \in {"pushFail", "pushAbort"} => last.toast # ""

\* C18: the fetch of a cycle is not issued while a push of the cycle is
\* outstanding, and a merge is applied only by a cycle that was pulling.
C18_PhasesInOrder ==
  [][/\ \A c \in Cycles : pc'[c] = "pulling" => \A p \in pushes' : p.c # c
     /\ last'.op = "merge" => pc[last'.c] = "pulling" /\ pc'[last'.c] = "idle"]_vars

\* a cycle that had two records to push has just merged
C18_Witness ==
  /\ last.op = "merge"
  /\ Cardinality({i \in 1..Len(startDirty[last.c]) : startDirty[last.c][i]}) >= 2

\* C19: every entry of the persisted conflict log is still in it after any step.
C19_ConflictLogAppendOnly ==
  [][\A n \in 1..Len(conflictsLS) :
       \E m \in 1..Len(conflictsLS') : conflictsLS'[m] = conflictsLS[n]]_vars

\* the imported file is not a list, or has an entry without a string text
Malformed(b) == ~b.list \/ \E k \in 1..Len(b.items) : ~ValidEntry(b.items[k])

\* C20: the import of a malformed batch leaves the store and the persisted
\* list as they are.
C20_ImportIsAtomic ==
  [][\A b \in Batches :
       (Malformed(b) /\ importFromJsonFile(b)) => (quotes' = quotes /\ saved' = saved)]_vars

\* C21: every record a user action (add, import) appends to the store is dirty.
C21_LocalRecordsEnterDirty ==
  [][\A i \in (Len(quotes) + 1)..Len(quotes') : Dirty(quotes'[i])]_vars

\* the id is of the namespace of the records that come from the server
InServerNamespace(q) == Head(IdString(q)) = "srv"

\* C22 as stated: no step changes the id of a record of the store.
C22_IdNeverChanges ==
  [][\A i \in 1..Len(quotes) : IdOf(quotes'[i]) = IdOf(quotes[i])]_vars

\* C22 amended: the id of a record changes in one case only: the
\* acknowledgement of a push renames a record whose id is not of the server's
\* namespace to an id of that namespace; merge, restore, a failed push and
\* every other step leave every id as it is.
C22_IdChangesOnlyOnAck ==
  [][\A i \in 1..Len(quotes) :
       \/ IdOf(quotes'[i]) = IdOf(quotes[i])
       \/ /\ last'.op = "pushOk"
          /\ last'.slot = i
          /\ ~InServerNamespace(quotes[i])
          /\ InServerNamespace(quotes'[i])]_vars

\* a push has just been acknowledged and the quote carries a server id, in a
\* version that renames
C22_Witness ==
  /\ version # "v2"
  /\ last.op = "pushOk"
  /\ InServerNamespace(quotes[last.slot])

\* C23 as stated: a record created locally never gets an id of the namespace
\* of the remote records: the acknowledgement of its push leaves its id out of it.
C23_LocalIdsStayLocal ==
  [][(last'.op = "pushOk" /\ ~InServerNamespace(quotes[last'.slot]))
       => ~InServerNamespace(quotes'[last'.slot])]_vars

\* the record was created locally and no push of it has been acknowledged
UnackedLocal(q) ==
  IF version = "v1" THEN Dirty(q) ELSE Has(q, "_src") /\ q._src = "local"

\* C23 amended: a record created locally has an id outside the server's
\* namespace as long as no push of it has been acknowledged; every record of
\* a snapshot has an id of that namespace, and a merge leaves every such
\* local record as it is.
C23_UnackedLocalIdsStayLocal ==
  [][/\ \A i \in 1..Len(quotes') :
          UnackedLocal(quotes'[i]) => ~InServerNamespace(quotes'[i])
     /\ last'.op = "merge" =>
          /\ \A k \in 1..Len(last'.snap) : Head(last'.snap[k].id) = "srv"
          /\ \A i \in 1..Len(quotes) :
               UnackedLocal(quotes[i]) => quotes'[i] = quotes[i]]_vars

\* a merge of a snapshot has just left a local record that was never acknowledged
C23_Witness ==
  /\ last.op = "merge"
  /\ Len(last.snap) >= 1
  /\ \E i \in 1..Len(quotes) : UnackedLocal(quotes[i]) /\ Dirty(quotes[i])

\* C24: no step removes a record: the store never gets shorter, so every slot
\* that held a record holds one after the step.
C24_NoRecordDeleted ==
  [][/\ Len(quotes') >= Len(quotes)
     /\ \A i \in 1..Len(quotes) : i \in DOMAIN quotes']_vars

\* a merge of an empty snapshot has just left a store that had grown
C24_Witness ==
  /\ last.op = "merge"
  /\ last.snap = << >>
  /\ Len(quotes) > Len(InitialQuotes(version))

\* showConflictBanner(count) was called by the handler that ran last: the merge
\* calls it, and passes a count to the notifier, only when conflicts.length > 0
CountPassed(l) == l.nconf > 0

\* C25: every merge ends with the persisted list equal to the store and with a
\* count of its result passed to the notifier, also when it found no conflict.
C25_MergePersistsAndReports ==
  last.op = "merge" => (saved = quotes /\ CountPassed(last))

\* C26: a cycle that starts issues a push for every record that is dirty at
\* that moment, whether an earlier push of it failed or not.
C26_DirtyRecordsArePushed ==
  [][last'.op \in BeginOps =>
       \A i \in 1..Len(quotes) :
         Dirty(quotes[i]) =>
           \E p \in pushes' : p.c = last'.c /\ p.slot = i /\ ~p.orphan]_vars

\* a cycle has just started and pushes a record that the cycle before it
\* pushed without success: that cycle is pulling and the record is still dirty
C26_Witness ==
  /\ version # "v2"
  /\ last.op \in BeginOps
  /\ \E c \in Cycles : \E i \in 1..Len(quotes) :
       /\ c # last.c
       /\ pc[c] = "pulling"
       /\ i <= Len(startDirty[c])
       /\ startDirty[c][i]
       /\ Dirty(quotes[i])
       /\ [c |-> last.c, slot |-> i, orphan |-> FALSE] \in pushes

\* C28: after a merge the record looked up for a remote record of the snapshot
\* is not dirty, also when it was dirty before the merge.
C28_MergedRecordsAreClean ==
  [][last'.op = "merge" =>
       \A k \in 1..Len(last'.snap) :
         LET i == Lookup(version, quotes, last'.snap[k].id)
         IN i # 0 => ~Dirty(quotes'[i])]_vars

\* the remote records whose id the store does not hold, in snapshot order
RECURSIVE AbsentOf(_, _)
AbsentOf(snap, qs) ==
  IF snap = << >> THEN << >>
  ELSE IF \E i \in 1..Len(qs) : KeyOf(version, qs[i]) = Head(snap).id
       THEN AbsentOf(Tail(snap), qs)
       ELSE <<Head(snap)>> \o AbsentOf(Tail(snap), qs)

\* C29: a merge leaves every record that was in the store in its slot, with
\* its key, and appends the remote records whose id was absent after them, in
\* the order of the snapshot.
C29_MergeIsInPlace ==
  [][last'.op = "merge" =>
       /\ Len(quotes') >= Len(quotes)
       /\ \A i \in 1..Len(quotes) : KeyOf(version, quotes'[i]) = KeyOf(version, quotes[i])
       /\ SubSeq(quotes', Len(quotes) + 1, Len(quotes')) = AbsentOf(last'.snap, quotes)]_vars

\* a merge has just overwritten a record in its slot and appended another
C29_Witness ==
  /\ last.op = "merge"
  /\ last.nconf >= 1
  /\ Len(last.snap) = 2
  /\ quotes[Len(quotes)] = last.snap[2]
  /\ \E i \in 1..(Len(quotes) - 1) : TextAndCategoryOf(quotes[i], last.snap[1])

\* C30: the entry a merge logs for the first remote record with an id holds
\* the local record as it was before the merge, and no push, restore, add or
\* merge without conflicts changes the logged entries.
C30_ConflictKeepsLocalSnapshot ==
  [][/\ last'.op = "merge" =>
          \A k \in 1..Len(last'.snap) :
            LET sq == last'.snap[k]
                i == Lookup(version, quotes, sq.id)
            IN (i # 0 /\ PrevWithId(last'.snap, k) = 0 /\ TextOrCategoryDiffer(quotes[i], sq)) =>
                 \E n \in 1..Len(conflictsLS') :
                   /\ conflictsLS'[n].id = sq.id
                   /\ conflictsLS'[n].server = sq
                   /\ conflictsLS'[n].local = quotes[i]
     /\ (last'.op # "merge" \/ last'.nconf = 0) => conflictsLS' = conflictsLS]_vars

\* a push of a record has just been acknowledged while the log holds an entry
\* for its id, with the local text the merge had overwritten
C30_Witness ==
  /\ last.op = "pushOk"
  /\ \E n \in 1..Len(conflictsLS) :
       /\ conflictsLS[n].id = KeyOf(version, quotes[last.slot])
       /\ conflictsLS[n].local.text # conflictsLS[n].server.text

\* C27: every cycle that has started is eventually idle again, provided every
\* outstanding call of the gateway eventually returns or fails.
C27_EveryCycleTerminates == \A c \in Cycles : (pc[c] # "idle") ~> (pc[c] = "idle")

\* a cycle that pushed has just ended, by a merge or by a failure
C27_Witness ==
  /\ last.op \in {"merge", "pullFail", "pushAbort"}
  /\ pc[last.c] = "idle"
  /\ \E i \in 1..Len(startDirty[last.c]) : startDirty[last.c][i]

\* C31 as stated: after a merge, for every record of the pulled snapshot the
\* store record found under its id has the text and the category of that
\* remote record.
C31_StoreAgreesWithSnapshot ==
  [][last'.op = "merge" =>
       \A k \in 1..Len(last'.snap) :
         LET i == Lookup(version, quotes', last'.snap[k].id)
         IN i # 0 /\ TextAndCategoryOf(quotes'[i], last'.snap[k])]_vars

\* C31 amended: after a merge, for every record of the pulled snapshot that is
\* the last of the snapshot with its id, the store holds a record with that id
\* and the one the merge index finds for it (the last store record with the
\* id) has the text and the category of that remote record.
C31_StoreAgreesWithLastOfEachId ==
  [][last'.op = "merge" =>
       \A k \in 1..Len(last'.snap) :
         LET i == Lookup(version, quotes', last'.snap[k].id)
         IN LastWithId(last'.snap, k) =>
              i # 0 /\ TextAndCategoryOf(quotes'[i], last'.snap[k])]_vars

\* a merge of two remote records with different ids has just ended, one of
\* them overwrote a store record that differed, and the store agrees with both
C31_Witness ==
  /\ last.op = "merge"
  /\ Len(last.snap) = 2
  /\ last.snap[1].id # last.snap[2].id
  /\ last.nconf >= 1
  /\ \A k \in 1..2 :
       LET i == Lookup(version, quotes, last.snap[k].id)
       IN i # 0 /\ TextAndCategoryOf(quotes[i], last.snap[k])

\* C32: for one dirtying of a record the server receives at most one
\* successful push of it, whatever triggers overlap.  Two successful answers
\* in a row have no restore and no local edit between them, so they are never
\* answers to pushes of the same record.
C32_OnePushPerDirtying ==
  [][(last.op = "pushOk" /\ last'.op = "pushOk") => last'.slot # last.slot]_vars

\* the id of store record q is the id of no record of the snapshot
NotInSnapshot(q, snap) == \A k \in 1..Len(snap) : snap[k].id # IdOf(q)

\* C33: a merge leaves every store record whose id does not occur in the
\* pulled snapshot as it was: it is still there, at its place, with the same
\* id, text, category, dirty flag, origin and timestamp.
C33_MergeLeavesOthersUntouched ==
  [][last'.op = "merge" =>
       \A i \in 1..Len(quotes) :
         NotInSnapshot(quotes[i], last'.snap) =>
           i <= Len(quotes') /\ View(quotes'[i]) = View(quotes[i])]_vars

\* a merge that overwrote a record has just ended and the store holds a dirty
\* record that the snapshot did not list
C33_Witness ==
  /\ last.op = "merge"
  /\ last.nconf >= 1
  /\ \E i \in 1..Len(quotes) : Dirty(quotes[i]) /\ NotInSnapshot(quotes[i], last.snap)

\* a record made by a local add that no push has acknowledged yet
AddedAndDirty(q) == Dirty(q) /\ Head(IdString(q)) = "loc"

\* C34: a record added locally while a cycle is pushing or pulling is not
\* lost.  Every step, the completion of that cycle included, leaves every
\* locally added dirty record in the store at its place with its text and
\* category, and leaves it dirty unless the step is the successful answer to a
\* push of that record.
C34_AddDuringCycleIsKept ==
  [][\A i \in 1..Len(quotes) :
       AddedAndDirty(quotes[i]) =>
         /\ i <= Len(quotes')
         /\ TextAndCategoryOf(quotes'[i], quotes[i])
         /\ Dirty(quotes'[i]) \/ (last'.op = "pushOk" /\ last'.slot = i)]_vars

\* a cycle has just completed with a merge of a snapshot, and the store holds a
\* dirty record that was added while that cycle was running
C34_Witness ==
  /\ last.op = "merge"
  /\ last.snap # << >>
  /\ \E i \in (Len(startDirty[last.c]) + 1)..Len(quotes) :
       AddedAndDirty(quotes[i]) /\ quotes[i].text = "Alpha"

\* C35: while the polling timer is set, its ticks are fair and the POSTs of a
\* record eventually succeed, every record that is dirty is eventually not
\* dirty (a restore that dirties it again starts the wait anew).
C35_DirtyEventuallyClean ==
  \A i \in 1..(2 + MaxPollNew) :
    (timers # {} /\ i <= Len(quotes) /\ Dirty(quotes[i]))
      ~> (i <= Len(quotes) /\ ~Dirty(quotes[i]))

\* polling is on, a push that a cycle started by a tick issued for a dirty
\* record has just been answered ok, and no record is dirty
C35_Witness ==
  /\ timers # {}
  /\ last.op = "pushOk"
  /\ started = 1
  /\ last.c = 2
  /\ \A i \in 1..Len(quotes) : ~Dirty(quotes[i])

\* the snapshot lists the id once, with the text and category of record sq
ListsOnceAs(snap, id, sq) ==
  \E k \in 1..Len(snap) :
    snap[k].id = id /\ OnlyWithId(snap, k) /\ TextAndCategoryOf(snap[k], sq)

\* C36: a restored local version does not survive a sync against an unchanged
\* remote.  When the store record that a restore writes for a logged conflict
\* (the first with the conflict's id) is dirty and holds the local version of
\* that conflict, as the restore leaves it, and a merge pulls a snapshot that
\* lists the id once, still with the server version of the conflict, then after
\* the merge that record has the
\* server text and category again and the log holds a conflict for the id whose
\* local snapshot is the restored version.
C36_RestoreDoesNotSurviveSync ==
  [][(version = "v2" /\ last'.op = "merge") =>
       \A n \in 1..Len(conflictsLS) :
         LET e == conflictsLS[n]
             t == Find(version, quotes, e.id)
         IN (/\ t # 0
             /\ Dirty(quotes[t])
             /\ TextAndCategoryOf(quotes[t], e.local)
             /\ TextOrCategoryDiffer(e.local, e.server)
             /\ ListsOnceAs(last'.snap, e.id, e.server))
            => /\ TextAndCategoryOf(quotes'[t], e.server)
               /\ \E m \in 1..Len(conflictsLS') :
                    /\ conflictsLS'[m].id = e.id
                    /\ TextAndCategoryOf(conflictsLS'[m].local, e.local)]_vars

\* C37: loading never fails the start-up.  When the persisted slot is absent,
\* unparsable or no list, the store is the default records of the version after
\* the load; otherwise it is the persisted list, record by record, so that a
\* store that was saved is the store again after the page is loaded.
C37_LoadRestoresStore ==
  [][last'.op = "load" =>
       IF IsList(saved) THEN quotes' = saved ELSE quotes' = InitialQuotes(version)]_vars

\* C38: an add whose text has fewer than 3 characters after trimming appends
\* nothing, does not write the persisted list and leaves every record as it
\* is; an add that is accepted appends exactly one record, with the trimmed
\* text and category, at the end of the store, leaves the others as they are
\* and persists the store.
C38_RejectedAddChangesNothing ==
  [][\A t \in InputTexts, g \in InputCategories :
       addQuote_form(t, g) =>
         IF Len(Trim(t)) < 3
         THEN quotes' = quotes /\ saved' = saved
         ELSE /\ Len(quotes') = Len(quotes) + 1
              /\ SubSeq(quotes', 1, Len(quotes)) = quotes
              /\ quotes'[Len(quotes')].text = Trim(t)
              /\ quotes'[Len(quotes')].category = Trim(g)
              /\ saved' = quotes']_vars

\* an add has just been rejected after an accepted one: the store and the
\* persisted list still end with the record that was accepted
C38_Witness ==
  /\ last.op = "addRejected"
  /\ Len(quotes) = 3
  /\ Has(quotes[3], "text")
  /\ quotes[3].text = "Alpha"
  /\ saved = quotes

====
